---- MODULE Spec2Model ----
(***************************************************************************)
(* Model of function_app.py: the HTTP handler `main`, the engine adapter   *)
(* `get_stockfish_analysis` and the pure helper `get_move_flags`.          *)
(*                                                                         *)
(* A request is handled by one coroutine.  The coroutine is atomic between *)
(* its three suspension points (await popen_uci, await engine.analyse,     *)
(* await engine.quit), so each request takes four steps:                   *)
(*   main       lines 175-206 and 21-35 (up to the await of popen_uci)     *)
(*   popen_uci  line 35 completes; lines 36-46 (analyse command issued)    *)
(*   analyse    line 46 completes; lines 47-140 (up to the await of quit)  *)
(*   quit       line 140 completes; lines 142, 207-234                     *)
(***************************************************************************)
EXTENDS Integers, Sequences, FiniteSets, TLC

VARIABLES req, pc, fs, procs, engine, pending, resp, log, fmove, fflags

vars == <<req, pc, fs, procs, engine, pending, resp, log, fmove, fflags>>

(***************************************************************************)
(* Bounds of the model.                                                    *)
(***************************************************************************)
NumReqs == 2
MaxDepth == 2
MaxCp == 1
MaxMate == 1

(***************************************************************************)
(* Program constants.                                                      *)
(***************************************************************************)
STOCKFISH_PATH == "bin/stockfish"
DefaultDepth == 12
CpScale == 100

(***************************************************************************)
(* Python values that end up in the response: None, int, float (as the     *)
(* fraction n/d), the infinities, and the two strings the code builds.     *)
(***************************************************************************)
Null == [t |-> "null", n |-> 0, d |-> 1]
IntVal(k) == [t |-> "int", n |-> k, d |-> 1]
FloatVal(k, den) == [t |-> "float", n |-> k, d |-> den]
PosInf == [t |-> "inf", n |-> 1, d |-> 1]
NegInf == [t |-> "inf", n |-> -1, d |-> 1]
StrOfInt(k) == [t |-> "str", n |-> k, d |-> 1]
MateStr(k) == [t |-> "matestr", n |-> k, d |-> 1]

IsNumber(v) == v.t \in {"int", "float", "inf"}

(***************************************************************************)
(* Exceptions: a type and a message, the message a sequence of parts.      *)
(***************************************************************************)
NoExc == [type |-> "None", msg |-> <<>>]
Exc(type, msg) == [type |-> type, msg |-> msg]

(***************************************************************************)
(* Request inputs.  A FEN field is None, a string, or a truthy JSON value  *)
(* that is not a string; a depth field is absent, a JSON integer, a        *)
(* numeric string, an empty string, or something int() rejects.            *)
(***************************************************************************)
StartFen == "rnbqkbnr/pppppppp/8/8/8/8/PPPPPPPP/RNBQKBNR w KQkq - 0 1"
BlackFen == "rnbqkbnr/pppppppp/8/8/4P3/8/PPPP1PPP/RNBQKBNR b KQkq - 0 1"
ShortFen == "rnbqkbnr/pppppppp/8/8 w KQkq - 0 1"

ValidFens == {StartFen, BlackFen}
InvalidFens == {ShortFen}

NoneFen == [t |-> "none", s |-> ""]
StrFen(s) == [t |-> "str", s |-> s]
OtherFen == [t |-> "other", s |-> ""]

NoDepth == [t |-> "absent", n |-> 0]
IntDepth(k) == [t |-> "int", n |-> k]
NumStrDepth(k) == [t |-> "numstr", n |-> k]
EmptyDepth == [t |-> "empty", n |-> 0]
BadDepth == [t |-> "bad", n |-> 0]

Depths == 1..MaxDepth

BodyFens == {NoneFen, StrFen(""), OtherFen} \cup {StrFen(s) : s \in ValidFens \cup InvalidFens}
BodyDepths == {NoDepth, BadDepth} \cup {IntDepth(k) : k \in Depths}
QueryFens == {NoneFen} \cup {StrFen(s) : s \in ValidFens \cup InvalidFens}
QueryDepths == {NoDepth, EmptyDepth, BadDepth} \cup {NumStrDepth(k) : k \in Depths}

NoBody == [kind |-> "nojson", fen |-> NoneFen, depth |-> NoDepth]
NonObjectBody == [kind |-> "nonobject", fen |-> NoneFen, depth |-> NoDepth]
ObjectBody(f, d) == [kind |-> "object", fen |-> f, depth |-> d]

Bodies == {NoBody, NonObjectBody} \cup {ObjectBody(f, d) : f \in BodyFens, d \in BodyDepths}
Queries == [fen : QueryFens, depth : QueryDepths]
Requests == [body : Bodies, params : Queries]

\* The requests of the concurrent specification: query parameters only.
SmallRequests == {[body |-> NoBody, params |-> [fen |-> f, depth |-> NoDepth]] :
                     f \in {NoneFen, StrFen(StartFen), StrFen(ShortFen)}}

(***************************************************************************)
(* Python truthiness of a FEN field and of a query depth (lines 187-189).  *)
(***************************************************************************)
Truthy(f) == f.t = "other" \/ (f.t = "str" /\ f.s # "")
TruthyDepth(d) == d.t \in {"int", "numstr", "bad"}

\* int(x): line 185 and line 190.
IntConv(d) ==
    IF d.t \in {"int", "numstr"}
    THEN [exc |-> NoExc, n |-> d.n]
    ELSE [exc |-> Exc("ValueError", <<"invalid literal for int()">>), n |-> 0]

(***************************************************************************)
(* main, lines 175-190: which FEN and depth the request resolves to, or    *)
(* the exception raised while resolving them (outside every try block).    *)
(***************************************************************************)
ResolveBody(rq) ==
    IF rq.body.kind = "nojson"
    THEN [exc |-> NoExc, fen |-> NoneFen, depth |-> DefaultDepth]
    ELSE IF rq.body.kind = "nonobject"
    THEN [exc |-> Exc("AttributeError", <<"object has no attribute 'get'">>),
          fen |-> NoneFen, depth |-> DefaultDepth]
    ELSE LET c == IF rq.body.depth.t = "absent"
                  THEN [exc |-> NoExc, n |-> DefaultDepth]
                  ELSE IntConv(rq.body.depth)
         IN  [exc |-> c.exc, fen |-> rq.body.fen,
              depth |-> IF c.exc = NoExc THEN c.n ELSE DefaultDepth]

ResolveInputs(rq) ==
    LET b == ResolveBody(rq) IN
    IF b.exc # NoExc \/ Truthy(b.fen)
    THEN b
    ELSE IF TruthyDepth(rq.params.depth)
    THEN LET c == IntConv(rq.params.depth)
         IN  [exc |-> c.exc, fen |-> rq.params.fen,
              depth |-> IF c.exc = NoExc THEN c.n ELSE b.depth]
    ELSE [exc |-> NoExc, fen |-> rq.params.fen, depth |-> b.depth]

\* chess.Board(fen), line 197: ValueError on a malformed FEN string.
BoardRaisesValueError(s) == s \notin ValidFens

\* board.turn of a valid FEN, lines 66 and 130.
Turn(s) == IF s = BlackFen THEN "b" ELSE "w"

(***************************************************************************)
(* Moves, as get_move_flags sees them: move.promotion, the board's four    *)
(* predicates on the move, the piece on the origin square and the two      *)
(* squares (0-63, rank = square \div 8).                                   *)
(***************************************************************************)
Squares == 0..63
PieceKinds == {"none", "pawn", "other"}

\* The squares the flag specification enumerates: two files, every rank.
FlagSquares == {sq \in Squares : sq % 8 \in {0, 4}}

\* python-chess: an en-passant move is a capture; a move castles one way.
FlagMoves == {m \in [promotion : BOOLEAN, kingside : BOOLEAN, queenside : BOOLEAN,
                     capture : BOOLEAN, en_passant : BOOLEAN, piece : PieceKinds,
                     from_square : FlagSquares, to_square : FlagSquares] :
                 (m.en_passant => m.capture) /\ ~(m.kingside /\ m.queenside)}

Abs(x) == IF x < 0 THEN -x ELSE x

\* str.replace("n", "") on a string held as a sequence of characters.
RemoveN(flags) == SelectSeq(flags, LAMBDA ch : ch # "n")

\* line 166: the move spans two ranks.
TwoRanks(m) == Abs((m.to_square \div 8) - (m.from_square \div 8)) = 2

\* get_move_flags with line 167 prefixing "b" without dropping the "n".
get_move_flags_keep_n(m) ==
    LET f1 == IF m.promotion THEN <<"p">>
              ELSE IF m.kingside THEN <<"k">>
              ELSE IF m.queenside THEN <<"q">>
              ELSE <<>>
        f2 == IF m.capture
              THEN (IF m.en_passant THEN f1 \o <<"e">> ELSE f1 \o <<"c">>)
              ELSE f1
        f3 == IF f2 = <<>> /\ ~m.capture /\ ~m.promotion THEN <<"n">> ELSE f2
    IN  IF m.piece = "pawn" /\ TwoRanks(m)
        THEN <<"b">> \o f3
        ELSE f3

(***************************************************************************)
(* get_move_flags, lines 144-169.                                          *)
(***************************************************************************)
get_move_flags(m) ==
    LET f1 == IF m.promotion THEN <<"p">>
              ELSE IF m.kingside THEN <<"k">>
              ELSE IF m.queenside THEN <<"q">>
              ELSE <<>>
        f2 == IF m.capture
              THEN (IF m.en_passant THEN f1 \o <<"e">> ELSE f1 \o <<"c">>)
              ELSE f1
        f3 == IF f2 = <<>> /\ ~m.capture /\ ~m.promotion THEN <<"n">> ELSE f2
    IN  IF m.piece = "pawn" /\ TwoRanks(m)
        THEN <<"b">> \o RemoveN(f3)
        ELSE f3

(***************************************************************************)
(* What engine.analyse can produce (line 46): the engine dies, or an info  *)
(* dictionary with an optional score (centipawns or mate, relative to the  *)
(* side to move) and an optional principal variation.                      *)
(***************************************************************************)
NoScore == [t |-> "none", n |-> 0]
CpScore(c) == [t |-> "cp", n |-> c]
MateScore(k) == [t |-> "mate", n |-> k]

Scores == {NoScore} \cup {CpScore(c) : c \in -MaxCp..MaxCp}
                    \cup {MateScore(k) : k \in -MaxMate..MaxMate}

NoMove == [promotion |-> FALSE, kingside |-> FALSE, queenside |-> FALSE,
           capture |-> FALSE, en_passant |-> FALSE, piece |-> "none",
           from_square |-> 0, to_square |-> 0]
\* e2e4, a knight move and a pawn capture.
E2E4 == [NoMove EXCEPT !.piece = "pawn", !.from_square = 12, !.to_square = 28]
G1F3 == [NoMove EXCEPT !.piece = "other", !.from_square = 6, !.to_square = 21]
E4D5 == [NoMove EXCEPT !.piece = "pawn", !.capture = TRUE,
                       !.from_square = 28, !.to_square = 35]
BestMoves == {E2E4, G1F3, E4D5}

Infos == [score : Scores, pv : {<<>>} \cup {<<m>> : m \in BestMoves}]

(***************************************************************************)
(* The response fields the adapter fills, lines 52-79.                     *)
(***************************************************************************)
EmptyResult == [fen |-> "", turn |-> "", mate |-> Null, eval |-> Null,
                centipawns |-> Null, hasMove |-> FALSE, move |-> NoMove,
                flags |-> <<>>, winChance |-> Null]

\* ApplyScore with the sign test of line 84 taken as >= 0.
ApplyScore_mate_sign(res, score) ==
    IF score.t = "mate"
    THEN [res EXCEPT !.mate = IntVal(score.n),
                     !.eval = IF score.n >= 0 THEN PosInf ELSE NegInf,
                     !.centipawns = MateStr(score.n)]
    ELSE IF score.t = "cp"
    THEN [res EXCEPT !.eval = FloatVal(score.n, CpScale),
                     !.centipawns = StrOfInt(score.n)]
    ELSE res

\* lines 81-97: mate score or centipawn score.
ApplyScore(res, score) ==
    IF score.t = "mate"
    THEN [res EXCEPT !.mate = IntVal(score.n),
                     !.eval = IF score.n > 0 THEN PosInf ELSE NegInf,
                     !.centipawns = MateStr(score.n)]
    ELSE IF score.t = "cp"
    THEN [res EXCEPT !.eval = FloatVal(score.n, CpScale),
                     !.centipawns = StrOfInt(score.n)]
    ELSE res

\* lines 100-116: the best move's fields.
ApplyMove(res, pv) ==
    IF pv = <<>> THEN res
    ELSE [res EXCEPT !.hasMove = TRUE, !.move = pv[1],
                     !.flags = get_move_flags(pv[1])]

\* line 129: -k_factor * analysis_result["centipawns"], a float times the
\* stored value; Python raises TypeError when the value is a str.
WinChance(cpv, turn) ==
    IF IsNumber(cpv)
    THEN [exc |-> NoExc,
          val |-> [t |-> "winchance", n |-> cpv.n, d |-> IF turn = "w" THEN 1 ELSE -1]]
    ELSE [exc |-> Exc("TypeError",
                      <<"can't multiply sequence by non-int of type 'float'">>),
          val |-> Null]

\* lines 47-130: the try block's body after analyse returned info.
BuildResult(fen, info) ==
    LET r0 == [EmptyResult EXCEPT !.fen = fen, !.turn = Turn(fen)]
        r1 == ApplyScore(r0, info.score)
        r2 == ApplyMove(r1, info.pv)
    IN  IF r2.eval # Null /\ info.score.t # "mate"
        THEN LET w == WinChance(r2.centipawns, r2.turn)
             IN  IF w.exc # NoExc
                 THEN [exc |-> w.exc, result |-> EmptyResult]
                 ELSE [exc |-> NoExc, result |-> [r2 EXCEPT !.winChance = w.val]]
        ELSE [exc |-> NoExc, result |-> r2]

(***************************************************************************)
(* HTTP responses.  kind is "result" or "error" for a JSON body, "text"    *)
(* for a plain-text body, "raised" when main returned no response at all   *)
(* because an exception left it.                                           *)
(***************************************************************************)
NoResp == [status |-> 0, kind |-> "none", msg |-> <<>>, result |-> EmptyResult]
JsonResult(res) == [status |-> 200, kind |-> "result", msg |-> <<>>, result |-> res]
JsonError(code, msg) == [status |-> code, kind |-> "error", msg |-> msg, result |-> EmptyResult]
TextResp(code, msg) == [status |-> code, kind |-> "text", msg |-> msg, result |-> EmptyResult]
Raised(e) == [status |-> 0, kind |-> "raised", msg |-> <<e.type>> \o e.msg, result |-> EmptyResult]

\* lines 199-203.
InvalidFenResp == JsonError(400, <<"Invalid FEN string provided.">>)

\* lines 235-239.
MissingFenResp == TextResp(400, <<"Please pass a FEN string in the request body or as a query parameter 'fen'.">>)

\* lines 214-234: the handlers of main's try block.
MapException(e) ==
    IF e.type \in {"FileNotFoundError", "PermissionError"}
    THEN JsonError(500, e.msg)
    ELSE JsonError(500, <<"An internal error occurred: ">> \o e.msg)

(***************************************************************************)
(* get_stockfish_analysis, lines 21-32: the binary must exist and be       *)
(* executable; one chmod is attempted when it is not.  chmod is "ok" (the  *)
(* file becomes executable), "still" (it returns but the file is still not *)
(* executable) or "raise" (OSError).                                       *)
(***************************************************************************)
ChmodOutcomes == {"ok", "still", "raise"}

NotExecutableAfterChmod ==
    Exc("PermissionError", <<"Stockfish executable at ", STOCKFISH_PATH,
                             " is not executable after chmod.">>)

NotExecutable(e) ==
    Exc("PermissionError", <<"Stockfish executable at ", STOCKFISH_PATH,
                             " is not executable. Error: ">> \o e.msg)

CheckBinary(state, chmod) ==
    IF state = "absent"
    THEN [exc |-> Exc("FileNotFoundError",
                      <<"Stockfish executable not found at ", STOCKFISH_PATH>>),
          fs |-> state, chmods |-> 0]
    ELSE IF state = "exec"
    THEN [exc |-> NoExc, fs |-> state, chmods |-> 0]
    ELSE IF chmod = "ok"
    THEN [exc |-> NoExc, fs |-> "exec", chmods |-> 1]
    ELSE IF chmod = "still"
    THEN [exc |-> NotExecutable(NotExecutableAfterChmod), fs |-> state, chmods |-> 1]
    ELSE [exc |-> NotExecutable(Exc("OSError", <<"Operation not permitted">>)),
          fs |-> state, chmods |-> 1]

(***************************************************************************)
(* Engine processes.  popen_uci (line 35) starts a new process for the     *)
(* calling request and hands back its handle.                              *)
(***************************************************************************)
NoReply == [kind |-> "none", info |-> [score |-> NoScore, pv |-> <<>>]]
Terminated == [kind |-> "terminated", info |-> [score |-> NoScore, pv |-> <<>>]]
InfoReply(info) == [kind |-> "info", info |-> info]

NewProc(r) == [owner |-> r, live |-> TRUE, quitAsked |-> FALSE,
               analyses |-> 0, fen |-> "", depth |-> 0, reply |-> NoReply]

\* Spawn handing out a process that is already running, when there is one.
Spawn_pooled(ps, r) ==
    IF \E p \in DOMAIN ps : ps[p].live
    THEN [procs |-> ps, pid |-> CHOOSE p \in DOMAIN ps : ps[p].live]
    ELSE [procs |-> Append(ps, NewProc(r)), pid |-> Len(ps) + 1]

Spawn(ps, r) == [procs |-> Append(ps, NewProc(r)), pid |-> Len(ps) + 1]

\* QuitsEngine with engine.quit() as the try block's last statement.
QuitsEngine_on_success(e) == e = NoExc

\* lines 139-140: the finally clause runs engine.quit() whether or not the
\* try block raised.
QuitsEngine(e) == TRUE

NoLog == [adapter |-> 0, exists |-> 0, chmod |-> 0, spawns |-> 0]
NoPending == [exc |-> NoExc, result |-> EmptyResult]
NotFlagged == [done |-> FALSE, flags |-> <<>>]

Reqs == DOMAIN req

Finish(r, response) ==
    /\ resp' = [resp EXCEPT ![r] = response]
    /\ pc' = [pc EXCEPT ![r] = "done"]

(***************************************************************************)
(* main, lines 175-206, running into get_stockfish_analysis, lines 21-35,  *)
(* up to the await of popen_uci.                                           *)
(***************************************************************************)
main(r) ==
    /\ pc[r] = "start"
    /\ UNCHANGED <<req, procs, engine, pending, fmove, fflags>>
    /\ LET ri == ResolveInputs(req[r]) IN
       IF ri.exc # NoExc
       THEN Finish(r, Raised(ri.exc)) /\ UNCHANGED <<fs, log>>
       ELSE IF ~Truthy(ri.fen)
       THEN Finish(r, MissingFenResp) /\ UNCHANGED <<fs, log>>
       ELSE IF ri.fen.t # "str"
       THEN /\ Finish(r, MapException(Exc("AttributeError",
                                          <<"object has no attribute 'split'">>)))
            /\ UNCHANGED <<fs, log>>
       ELSE IF BoardRaisesValueError(ri.fen.s)
       THEN Finish(r, InvalidFenResp) /\ UNCHANGED <<fs, log>>
       ELSE \E chmod \in ChmodOutcomes :
              LET cb == CheckBinary(fs, chmod) IN
              /\ fs' = cb.fs
              /\ log' = [log EXCEPT ![r].adapter = @ + 1, ![r].exists = @ + 1,
                                    ![r].chmod = @ + cb.chmods]
              /\ IF cb.exc # NoExc
                 THEN Finish(r, MapException(cb.exc))
                 ELSE /\ pc' = [pc EXCEPT ![r] = "popen"]
                      /\ UNCHANGED resp

(***************************************************************************)
(* popen_uci completes (line 35): either the process could not be started  *)
(* and the exception reaches main's handlers, or the engine is up and      *)
(* lines 36-46 send it the one analyse command.                            *)
(***************************************************************************)
popen_uci(r) ==
    /\ pc[r] = "popen"
    /\ UNCHANGED <<req, fs, pending, fmove, fflags>>
    /\ \/ /\ Finish(r, MapException(Exc("OSError", <<"Exec format error">>)))
          /\ UNCHANGED <<procs, engine, log>>
       \/ LET sp == Spawn(procs, r)
              ri == ResolveInputs(req[r])
          IN  /\ procs' = [sp.procs EXCEPT ![sp.pid].analyses = @ + 1,
                                           ![sp.pid].fen = ri.fen.s,
                                           ![sp.pid].depth = ri.depth]
              /\ engine' = [engine EXCEPT ![r] = sp.pid]
              /\ log' = [log EXCEPT ![r].spawns = @ + 1]
              /\ pc' = [pc EXCEPT ![r] = "analyse"]
              /\ UNCHANGED resp

\* lines 133-140: after the try block, with `out` what it produced.
AfterTry(r, out, ps) ==
    IF QuitsEngine(out.exc)
    THEN /\ procs' = [ps EXCEPT ![engine[r]].quitAsked = TRUE]
         /\ pending' = [pending EXCEPT ![r] = out]
         /\ pc' = [pc EXCEPT ![r] = "quit"]
         /\ UNCHANGED resp
    ELSE /\ procs' = ps
         /\ UNCHANGED pending
         /\ Finish(r, MapException(out.exc))

(***************************************************************************)
(* engine.analyse completes (line 46): the engine died, or it returned an  *)
(* info dictionary from which lines 47-130 build the result.               *)
(***************************************************************************)
analyse(r) ==
    /\ pc[r] = "analyse"
    /\ UNCHANGED <<req, fs, engine, log, fmove, fflags>>
    /\ \/ AfterTry(r, [exc |-> Exc("EngineTerminatedError", <<"engine process died">>),
                       result |-> EmptyResult],
                   [procs EXCEPT ![engine[r]].live = FALSE,
                                 ![engine[r]].reply = Terminated])
       \/ \E info \in Infos :
            AfterTry(r, BuildResult(procs[engine[r]].fen, info),
                     [procs EXCEPT ![engine[r]].reply = InfoReply(info)])

(***************************************************************************)
(* engine.quit() completes (line 140); line 142 returns the result to      *)
(* main, lines 207-213, or the pending exception reaches lines 214-234.    *)
(***************************************************************************)
quit(r) ==
    /\ pc[r] = "quit"
    /\ UNCHANGED <<req, fs, engine, pending, log, fmove, fflags>>
    /\ procs' = [procs EXCEPT ![engine[r]].live = FALSE]
    /\ Finish(r, IF pending[r].exc = NoExc
                 THEN JsonResult(pending[r].result)
                 ELSE MapException(pending[r].exc))

\* A call of get_move_flags on the move drawn initially.
flags_step ==
    /\ ~fflags.done
    /\ fmove \in FlagMoves
    /\ fflags' = [done |-> TRUE, flags |-> get_move_flags(fmove)]
    /\ UNCHANGED <<req, pc, fs, procs, engine, pending, resp, log, fmove>>

InitFor(rs, inputs) ==
    /\ req \in [rs -> inputs]
    /\ pc = [r \in rs |-> "start"]
    /\ fs \in {"absent", "noexec", "exec"}
    /\ procs = <<>>
    /\ engine = [r \in rs |-> 0]
    /\ pending = [r \in rs |-> NoPending]
    /\ resp = [r \in rs |-> NoResp]
    /\ log = [r \in rs |-> NoLog]
    /\ fmove = NoMove
    /\ fflags = NotFlagged

\* One request, every shape of input.
Init == InitFor({1}, Requests)

\* Concurrent requests.
InitConc == InitFor(1..NumReqs, SmallRequests)

\* get_move_flags alone, on every move.
InitFlags ==
    /\ req = <<>> /\ pc = <<>> /\ engine = <<>> /\ pending = <<>>
    /\ resp = <<>> /\ log = <<>> /\ procs = <<>> /\ fs = "exec"
    /\ fmove \in FlagMoves
    /\ fflags = NotFlagged

Next ==
    \/ \E r \in Reqs : main(r)
    \/ \E r \in Reqs : popen_uci(r)
    \/ \E r \in Reqs : analyse(r)
    \/ \E r \in Reqs : quit(r)

NextFlags == flags_step

Spec == Init /\ [][Next]_vars
SpecConc == InitConc /\ [][Next]_vars
SpecFlags == InitFlags /\ [][NextFlags]_vars

(***************************************************************************)
(* Vocabulary of the properties.                                           *)
(***************************************************************************)
Done(r) == pc[r] = "done"
Spawned(r) == engine[r] # 0
Reply(r) == procs[engine[r]].reply
Reported(r, kind) == Spawned(r) /\ Reply(r).kind = "info" /\ Reply(r).info.score.t = kind

\* The FEN field a request presents: the body's when it is a non-empty
\* string, the query parameter's otherwise.
PresentedFen(rq) ==
    IF rq.body.kind = "object" /\ Truthy(rq.body.fen) THEN rq.body.fen ELSE rq.params.fen
HasValidFen(rq) == PresentedFen(rq).t = "str" /\ PresentedFen(rq).s \in ValidFens
HasInvalidFen(rq) == PresentedFen(rq).t = "str" /\ PresentedFen(rq).s \in InvalidFens
HasNoFen(rq) == ~Truthy(PresentedFen(rq))

\* Every depth field of the request is absent or an integer.
DepthsWellFormed(rq) ==
    /\ rq.body.depth.t \in {"absent", "int"}
    /\ rq.params.depth.t \in {"absent", "numstr"}

\* The depth under field-by-field body precedence.
PreferredDepth(rq) ==
    IF rq.body.kind = "object" /\ rq.body.depth.t = "int" THEN rq.body.depth.n
    ELSE IF rq.params.depth.t = "numstr" THEN rq.params.depth.n
    ELSE DefaultDepth

Range(seq) == {seq[i] : i \in DOMAIN seq}

(***************************************************************************)
(* C1.  A request whose engine reported a centipawn score C and a          *)
(* principal variation is answered 200 with centipawns = C, eval = C/100   *)
(* and a non-null winChance.                                               *)
(***************************************************************************)
C1_CentipawnResponse ==
    \A r \in Reqs :
        (Done(r) /\ Reported(r, "cp") /\ Reply(r).info.pv # <<>>) =>
            /\ resp[r].status = 200
            /\ resp[r].result.centipawns.n = Reply(r).info.score.n
            /\ resp[r].result.eval = FloatVal(Reply(r).info.score.n, CpScale)
            /\ resp[r].result.winChance # Null

C3_QuitBeforeReturn ==
    \A p \in DOMAIN procs :
        Done(procs[p].owner) => procs[p].quitAsked /\ ~procs[p].live

C3_Witness ==
    \E r \in Reqs : /\ Done(r) /\ Spawned(r) /\ Reply(r).kind = "info"
                    /\ resp[r].status = 500 /\ procs[engine[r]].quitAsked

(***************************************************************************)
(* C4.  A request whose FEN fails validation is answered 400 with a JSON   *)
(* error body and never reaches the adapter: no binary check, no chmod,    *)
(* no process.                                                             *)
(***************************************************************************)
C4_InvalidFenRejected ==
    \A r \in Reqs :
        (Done(r) /\ HasInvalidFen(req[r])) =>
            /\ resp[r].status = 400 /\ resp[r].kind = "error"
            /\ log[r] = NoLog /\ ~Spawned(r)

(***************************************************************************)
(* C5.  A request with a valid FEN, when the binary does not exist, is     *)
(* answered 500 with a JSON error naming the path, with no chmod and no    *)
(* process spawned.                                                        *)
(***************************************************************************)
C5_MissingBinary ==
    \A r \in Reqs :
        (Done(r) /\ HasValidFen(req[r]) /\ fs = "absent") =>
            /\ resp[r].status = 500 /\ resp[r].kind = "error"
            /\ STOCKFISH_PATH \in Range(resp[r].msg)
            /\ log[r].chmod = 0 /\ log[r].spawns = 0 /\ ~Spawned(r)

(***************************************************************************)
(* C6.  Every request ends with a response of status 200, 400 or 500; no   *)
(* exception leaves main.                                                  *)
(***************************************************************************)
C6_AlwaysResponds ==
    \A r \in Reqs :
        Done(r) => resp[r].kind # "raised" /\ resp[r].status \in {200, 400, 500}

(***************************************************************************)
(* C7.  Every 400 and 500 response carries a JSON {"error": message}       *)
(* body, the answer to a request without FEN included.                     *)
(***************************************************************************)
C7_JsonErrorBodies ==
    \A r \in Reqs :
        (Done(r) /\ resp[r].status \in {400, 500}) => resp[r].kind = "error"

(***************************************************************************)
(* C8.  The FEN analysed is the body's when the body has a non-empty one,  *)
(* else the query's; the depth passed on is the body's when the body has   *)
(* one, else the query's, else 12.                                         *)
(***************************************************************************)
C8_BodyPrecedence ==
    \A r \in Reqs :
        (Spawned(r) /\ DepthsWellFormed(req[r])) =>
            /\ procs[engine[r]].fen = PresentedFen(req[r]).s
            /\ procs[engine[r]].depth = PreferredDepth(req[r])

(***************************************************************************)
(* C9.  get_move_flags: one of p, k, q by priority promotion > kingside >  *)
(* queenside, then e for en passant or c for another capture; "n" alone    *)
(* for a move with none of these; "b" in front, and no "n", when a pawn    *)
(* moves two ranks.  Never empty; "e" and "c" never together.              *)
(***************************************************************************)
LeadFlag(m) ==
    IF m.promotion THEN <<"p">> ELSE IF m.kingside THEN <<"k">>
    ELSE IF m.queenside THEN <<"q">> ELSE <<>>
CaptureFlag(m) ==
    IF m.capture /\ m.en_passant THEN <<"e">> ELSE IF m.capture THEN <<"c">> ELSE <<>>
DoublePush(m) == m.piece = "pawn" /\ TwoRanks(m)
Plain(m) == ~m.promotion /\ ~m.kingside /\ ~m.queenside /\ ~m.capture

C9_MoveFlags ==
    fflags.done =>
        /\ fflags.flags # <<>>
        /\ (Plain(fmove) /\ ~DoublePush(fmove)) => fflags.flags = <<"n">>
        /\ (Plain(fmove) /\ DoublePush(fmove)) => fflags.flags = <<"b">>
        /\ ~Plain(fmove) =>
              fflags.flags = (IF DoublePush(fmove) THEN <<"b">> ELSE <<>>)
                                 \o LeadFlag(fmove) \o CaptureFlag(fmove)
        /\ (fmove.capture /\ fmove.en_passant) =>
              "e" \in Range(fflags.flags) /\ "c" \notin Range(fflags.flags)
        /\ (fmove.capture /\ ~fmove.en_passant) =>
              "c" \in Range(fflags.flags) /\ "e" \notin Range(fflags.flags)

C9_Witness ==
    /\ fflags.done /\ Plain(fmove) /\ DoublePush(fmove) /\ fflags.flags = <<"b">>

(***************************************************************************)
(* C10.  Under any interleaving each request calls the adapter and spawns  *)
(* at most once, each process receives at most one analyse command, a      *)
(* request only holds a process it spawned, the live processes are at most *)
(* as many as the requests between spawn and return, and a result is built *)
(* from the request's own FEN and its own engine's reply.                  *)
(***************************************************************************)
Live == {p \in DOMAIN procs : procs[p].live}
InFlight == {r \in Reqs : pc[r] \in {"analyse", "quit"}}

C10_Isolation ==
    /\ \A r \in Reqs : log[r].adapter <= 1 /\ log[r].spawns <= 1
    /\ \A p \in DOMAIN procs : procs[p].analyses <= 1
    /\ \A r \in Reqs : Spawned(r) => procs[engine[r]].owner = r
    /\ \A r, q \in Reqs : (Spawned(r) /\ Spawned(q) /\ r # q) => engine[r] # engine[q]
    /\ Cardinality(Live) <= Cardinality(InFlight)
    /\ \A r \in Reqs :
          (Done(r) /\ resp[r].kind = "result") =>
              resp[r].result = BuildResult(PresentedFen(req[r]).s, Reply(r).info).result

C10_Witness ==
    /\ Cardinality(Live) >= 2
    /\ \E r, q \in Reqs : r # q /\ pc[r] = "quit" /\ pc[q] = "analyse"

====
